---- MODULE Spec2Model ----
(***************************************************************************)
(* TempCycleDMA: cyclic executor of src/main.c.                            *)
(*                                                                         *)
(* Two contexts share the flag g_executar_ciclo_tarefas: the repeating     *)
(* timer callback (interrupt-like, runs to completion, may preempt main    *)
(* between any two statements) and the cooperative loop of main().         *)
(* Each statement of main() is one action; the callback is one action.     *)
(*                                                                         *)
(* Temperatures are fixed-point, in hundredths of a degree Celsius.        *)
(* The per-task timestamps (ini_tarefaN / fim_tarefaN) only feed the       *)
(* durations printed by printf and are not part of the state here.         *)
(***************************************************************************)
EXTENDS Integers, Sequences, FiniteSets, TLC

----------------------------------------------------------------------------
(* Bounds of the exploration *)

MaxTicks == 3

(* Values the sampler can return: 0.50, 1.00, 20.00, 20.20 and 20.50 degrees *)
Temps == {50, 100, 2000, 2020, 2050}

----------------------------------------------------------------------------
(* Program constants *)

(* media < 1.0f in executar_tarefa_5_extra_neopixel *)
LIMIAR_FRIO == 100

(* classification threshold of the trend classifier (0.2 degree) *)
LIMIAR_TENDENCIA == 20

(* capacity of the classifier's history *)
CAPACIDADE_HISTORICO == 2

TendenciaT == {"Unknown", "Rising", "Falling", "Stable"}

(* program positions of main(), named after the statement about to run *)
PcFalha == {"falha_print", "falha_loop"}
EmVoo   == {"tarefa1", "tarefa5", "tarefa2", "tarefa3", "tarefa4", "printf"}
PcLoop  == {"testa_flag", "reseta_flag"} \cup EmVoo
PcTodos == {"registrar"} \cup PcFalha \cup PcLoop

VARIABLES
  pc,                        \* position of main()
  g_executar_ciclo_tarefas,  \* volatile bool, shared with the callback
  media,                     \* float media
  t,                         \* tendencia_t t
  timerArmed,                \* the repeating timer is registered and repeating
  historico,                 \* history owned by the trend classifier
  ticks,                     \* history: callbacks fired
  ticksIdle,                 \* history: callbacks fired while no cycle was in flight
  seq,                       \* history: cycles started (flag cleared)
  cycles,                    \* history: telemetry lines printed
  ran,                       \* history: steps executed in the current cycle
  pauses,                    \* history: sleep_ms pauses made by main() itself in the current cycle
  sampleFault,               \* history: the sampler faulted in the current cycle
  errReports,                \* history: registration-failure messages printed
  mediaSeq, tSeq,            \* history: cycle in which media / t was last written
  tSrc,                      \* history: the temperature t was classified from
  mediaWrites, tWrites,      \* history: writes of media / t in the current cycle
  pedidos,                   \* history: callbacks that found the flag false
  tickDesdeReset,            \* history: a callback fired since main() last reset the flag
  amostraTicks,              \* history: callbacks fired before the last sampling began
  argAnterior,               \* history: the value passed to the classifier one call earlier
  chamadas                   \* history: calls of the classifier

vars == <<pc, g_executar_ciclo_tarefas, media, t, timerArmed, historico,
          ticks, ticksIdle, seq, cycles, ran, pauses, sampleFault, errReports,
          mediaSeq, tSeq, tSrc, mediaWrites, tWrites,
          pedidos, tickDesdeReset, amostraTicks, argAnterior, chamadas>>

ghostHist == <<pedidos, tickDesdeReset, amostraTicks, argAnterior, chamadas>>

ghostCiclo == <<ran, pauses, sampleFault, mediaSeq, tSeq, tSrc, mediaWrites, tWrites>>

----------------------------------------------------------------------------
(* External collaborators *)

(* tarefa1_obter_media_temp: returns a mean; a fault of the acquisition   *)
(* hardware has no channel in the float it returns.                       *)
SamplerOutcomes == [valor : Temps, falha : BOOLEAN]

(* a classifier whose comparisons include the threshold itself *)
Classifica_Inclusivo(hist, novo) ==
  IF hist = <<>> THEN "Unknown"
  ELSE LET delta == novo - hist[Len(hist)]
       IN  IF delta >= LIMIAR_TENDENCIA THEN "Rising"
           ELSE IF delta <= -LIMIAR_TENDENCIA THEN "Falling"
           ELSE "Stable"

(* tarefa3_analisa_tendencia: classification against the previous mean *)
Classifica(hist, novo) ==
  IF hist = <<>> THEN "Unknown"
  ELSE LET delta == novo - hist[Len(hist)]
       IN  IF delta > LIMIAR_TENDENCIA THEN "Rising"
           ELSE IF delta < -LIMIAR_TENDENCIA THEN "Falling"
           ELSE "Stable"

Empurra(hist, novo) ==
  LET h == Append(hist, novo)
  IN  IF Len(h) > CAPACIDADE_HISTORICO THEN Tail(h) ELSE h

(* a callback that asks the timer to stop repeating *)
CallbackRetorno_Para == FALSE

(* return value of repeating_timer_callback_principal *)
CallbackRetorno == TRUE

----------------------------------------------------------------------------
Init ==
  /\ pc = "registrar"
  /\ g_executar_ciclo_tarefas = FALSE
  /\ media = 0
  /\ t \in TendenciaT
  /\ timerArmed = FALSE
  /\ historico = <<>>
  /\ ticks = 0 /\ ticksIdle = 0 /\ seq = 0 /\ cycles = 0
  /\ ran = <<>> /\ pauses = 0 /\ sampleFault = FALSE /\ errReports = 0
  /\ mediaSeq = 0 /\ tSeq = 0 /\ tSrc = 0
  /\ mediaWrites = 0 /\ tWrites = 0
  /\ pedidos = 0 /\ tickDesdeReset = FALSE /\ amostraTicks = 0
  /\ argAnterior = 0 /\ chamadas = 0

(* a callback that samples the sensor itself, as it requests the cycle *)
Tick_Amostra ==
  /\ timerArmed
  /\ ticks < MaxTicks
  /\ g_executar_ciclo_tarefas' = TRUE
  /\ timerArmed' = CallbackRetorno
  /\ ticks' = ticks + 1
  /\ ticksIdle' = IF pc \in EmVoo THEN ticksIdle ELSE ticksIdle + 1
  /\ \E v \in Temps : media' = v
  /\ UNCHANGED <<pc, t, historico, seq, cycles, errReports>>
  /\ UNCHANGED ghostCiclo
  /\ pedidos' = IF g_executar_ciclo_tarefas THEN pedidos ELSE pedidos + 1
  /\ tickDesdeReset' = TRUE
  /\ UNCHANGED <<amostraTicks, argAnterior, chamadas>>

(* a callback that drops the tick when a cycle is in flight *)
Tick_Descarta ==
  /\ timerArmed
  /\ ticks < MaxTicks
  /\ g_executar_ciclo_tarefas' = IF pc \in EmVoo THEN g_executar_ciclo_tarefas ELSE TRUE
  /\ timerArmed' = CallbackRetorno
  /\ ticks' = ticks + 1
  /\ ticksIdle' = IF pc \in EmVoo THEN ticksIdle ELSE ticksIdle + 1
  /\ UNCHANGED <<pc, media, t, historico, seq, cycles, errReports>>
  /\ UNCHANGED ghostCiclo
  /\ pedidos' = IF g_executar_ciclo_tarefas \/ pc \in EmVoo THEN pedidos ELSE pedidos + 1
  /\ tickDesdeReset' = TRUE
  /\ UNCHANGED <<amostraTicks, argAnterior, chamadas>>

(* repeating_timer_callback_principal *)
Tick ==
  /\ timerArmed
  /\ ticks < MaxTicks
  /\ g_executar_ciclo_tarefas' = TRUE
  /\ timerArmed' = CallbackRetorno
  /\ ticks' = ticks + 1
  /\ ticksIdle' = IF pc \in EmVoo THEN ticksIdle ELSE ticksIdle + 1
  /\ UNCHANGED <<pc, media, t, historico, seq, cycles, errReports>>
  /\ UNCHANGED ghostCiclo
  /\ pedidos' = IF g_executar_ciclo_tarefas THEN pedidos ELSE pedidos + 1
  /\ tickDesdeReset' = TRUE
  /\ UNCHANGED <<amostraTicks, argAnterior, chamadas>>

(* if (!add_repeating_timer_ms(...)) *)
Registrar ==
  /\ pc = "registrar"
  /\ \E ok \in BOOLEAN :
       /\ timerArmed' = ok
       /\ pc' = IF ok THEN "testa_flag" ELSE "falha_print"
  /\ UNCHANGED <<g_executar_ciclo_tarefas, media, t, historico, ticks, ticksIdle,
                 seq, cycles, errReports>>
  /\ UNCHANGED ghostCiclo
  /\ UNCHANGED ghostHist

(* printf("Falha ao adicionar o timer principal!\n") *)
FalhaPrint ==
  /\ pc = "falha_print"
  /\ errReports' = errReports + 1
  /\ pc' = "falha_loop"
  /\ UNCHANGED <<g_executar_ciclo_tarefas, media, t, timerArmed, historico, ticks,
                 ticksIdle, seq, cycles>>
  /\ UNCHANGED ghostCiclo
  /\ UNCHANGED ghostHist

(* an error branch without the endless loop: falls into the main loop *)
FalhaLoop_Continua ==
  /\ pc = "falha_loop"
  /\ pc' = "testa_flag"
  /\ UNCHANGED <<g_executar_ciclo_tarefas, media, t, timerArmed, historico, ticks,
                 ticksIdle, seq, cycles, errReports>>
  /\ UNCHANGED ghostCiclo
  /\ UNCHANGED ghostHist

(* while(1) { tight_loop_contents(); } *)
FalhaLoop ==
  /\ pc = "falha_loop"
  /\ pc' = "falha_loop"
  /\ UNCHANGED <<g_executar_ciclo_tarefas, media, t, timerArmed, historico, ticks,
                 ticksIdle, seq, cycles, errReports>>
  /\ UNCHANGED ghostCiclo
  /\ UNCHANGED ghostHist

(* a loop that runs the tasks on every pass, whatever the flag says *)
TestaFlag_SempreExecuta ==
  /\ pc = "testa_flag"
  /\ pc' = "reseta_flag"
  /\ UNCHANGED <<g_executar_ciclo_tarefas, media, t, timerArmed, historico, ticks,
                 ticksIdle, seq, cycles, errReports>>
  /\ UNCHANGED ghostCiclo
  /\ UNCHANGED ghostHist

(* a loop whose else branch prints the telemetry line too *)
TestaFlag_ImprimeOcioso ==
  /\ pc = "testa_flag"
  /\ pc' = IF g_executar_ciclo_tarefas THEN "reseta_flag" ELSE "testa_flag"
  /\ cycles' = IF g_executar_ciclo_tarefas THEN cycles ELSE cycles + 1
  /\ UNCHANGED <<g_executar_ciclo_tarefas, media, t, timerArmed, historico, ticks,
                 ticksIdle, seq, errReports>>
  /\ UNCHANGED ghostCiclo
  /\ UNCHANGED ghostHist

(* if (g_executar_ciclo_tarefas) ... else { } *)
TestaFlag ==
  /\ pc = "testa_flag"
  /\ pc' = IF g_executar_ciclo_tarefas THEN "reseta_flag" ELSE "testa_flag"
  /\ UNCHANGED <<g_executar_ciclo_tarefas, media, t, timerArmed, historico, ticks,
                 ticksIdle, seq, cycles, errReports>>
  /\ UNCHANGED ghostCiclo
  /\ UNCHANGED ghostHist

(* a loop that forgets to reset the flag *)
ResetaFlag_SemReset ==
  /\ pc = "reseta_flag"
  /\ pc' = "tarefa1"
  /\ seq' = seq + 1
  /\ ran' = <<>> /\ pauses' = 0 /\ sampleFault' = FALSE
  /\ mediaWrites' = 0 /\ tWrites' = 0
  /\ UNCHANGED <<g_executar_ciclo_tarefas, media, t, timerArmed, historico, ticks,
                 ticksIdle, cycles, errReports, mediaSeq, tSeq, tSrc>>
  /\ tickDesdeReset' = FALSE
  /\ UNCHANGED <<pedidos, amostraTicks, argAnterior, chamadas>>

(* g_executar_ciclo_tarefas = false *)
ResetaFlag ==
  /\ pc = "reseta_flag"
  /\ g_executar_ciclo_tarefas' = FALSE
  /\ pc' = "tarefa1"
  /\ seq' = seq + 1
  /\ ran' = <<>> /\ pauses' = 0 /\ sampleFault' = FALSE
  /\ mediaWrites' = 0 /\ tWrites' = 0
  /\ UNCHANGED <<media, t, timerArmed, historico, ticks, ticksIdle, cycles,
                 errReports, mediaSeq, tSeq, tSrc>>
  /\ tickDesdeReset' = FALSE
  /\ UNCHANGED <<pedidos, amostraTicks, argAnterior, chamadas>>

(* a sampling step that gives the cycle up when the acquisition faults *)
Tarefa1_AbandonaFalha ==
  /\ pc = "tarefa1"
  /\ \E r \in SamplerOutcomes :
       /\ media' = r.valor
       /\ sampleFault' = r.falha
       /\ pc' = IF r.falha THEN "testa_flag" ELSE "tarefa5"
  /\ mediaSeq' = seq
  /\ mediaWrites' = mediaWrites + 1
  /\ ran' = Append(ran, "tarefa1")
  /\ UNCHANGED <<g_executar_ciclo_tarefas, t, timerArmed, historico, ticks, ticksIdle,
                 seq, cycles, errReports, pauses, tSeq, tSrc, tWrites>>
  /\ amostraTicks' = ticks
  /\ UNCHANGED <<pedidos, tickDesdeReset, argAnterior, chamadas>>

(* executar_tarefa_1_leitura_temp *)
Tarefa1 ==
  /\ pc = "tarefa1"
  /\ \E r \in SamplerOutcomes :
       /\ media' = r.valor
       /\ sampleFault' = r.falha
  /\ mediaSeq' = seq
  /\ mediaWrites' = mediaWrites + 1
  /\ ran' = Append(ran, "tarefa1")
  /\ pc' = "tarefa5"
  /\ UNCHANGED <<g_executar_ciclo_tarefas, t, timerArmed, historico, ticks, ticksIdle,
                 seq, cycles, errReports, pauses, tSeq, tSrc, tWrites>>
  /\ amostraTicks' = ticks
  /\ UNCHANGED <<pedidos, tickDesdeReset, argAnterior, chamadas>>

(* the display called before the trend analysis *)
Tarefa5_DisplayAntes ==
  /\ pc = "tarefa5"
  /\ pauses' = IF media < LIMIAR_FRIO THEN pauses + 2 ELSE pauses
  /\ ran' = IF media < LIMIAR_FRIO THEN Append(ran, "tarefa5") ELSE ran
  /\ pc' = "tarefa3"
  /\ UNCHANGED <<g_executar_ciclo_tarefas, media, t, timerArmed, historico, ticks,
                 ticksIdle, seq, cycles, errReports, sampleFault, mediaSeq, tSeq,
                 tSrc, mediaWrites, tWrites>>
  /\ UNCHANGED ghostHist

(* a blink test that includes the limit itself: media <= 1.0f *)
Tarefa5_LimiteInclusivo ==
  /\ pc = "tarefa5"
  /\ pauses' = IF media <= LIMIAR_FRIO THEN pauses + 2 ELSE pauses
  /\ ran' = IF media <= LIMIAR_FRIO THEN Append(ran, "tarefa5") ELSE ran
  /\ pc' = "tarefa2"
  /\ UNCHANGED <<g_executar_ciclo_tarefas, media, t, timerArmed, historico, ticks,
                 ticksIdle, seq, cycles, errReports, sampleFault, mediaSeq, tSeq,
                 tSrc, mediaWrites, tWrites>>
  /\ UNCHANGED ghostHist

(* executar_tarefa_5_extra_neopixel *)
Tarefa5 ==
  /\ pc = "tarefa5"
  /\ pauses' = IF media < LIMIAR_FRIO THEN pauses + 2 ELSE pauses
  /\ ran' = IF media < LIMIAR_FRIO THEN Append(ran, "tarefa5") ELSE ran
  /\ pc' = "tarefa2"
  /\ UNCHANGED <<g_executar_ciclo_tarefas, media, t, timerArmed, historico, ticks,
                 ticksIdle, seq, cycles, errReports, sampleFault, mediaSeq, tSeq,
                 tSrc, mediaWrites, tWrites>>
  /\ UNCHANGED ghostHist

(* executar_tarefa_2_analise_tendencia *)
Tarefa2 ==
  /\ pc = "tarefa2"
  /\ t' = Classifica(historico, media)
  /\ historico' = Empurra(historico, media)
  /\ tSeq' = seq
  /\ tSrc' = media
  /\ tWrites' = tWrites + 1
  /\ ran' = Append(ran, "tarefa2")
  /\ pc' = "tarefa3"
  /\ UNCHANGED <<g_executar_ciclo_tarefas, media, timerArmed, ticks, ticksIdle,
                 seq, cycles, errReports, pauses, sampleFault, mediaSeq, mediaWrites>>
  /\ argAnterior' = tSrc
  /\ chamadas' = chamadas + 1
  /\ UNCHANGED <<pedidos, tickDesdeReset, amostraTicks>>

(* a display step that runs the trend analysis a second time *)
Tarefa3_Reclassifica ==
  /\ pc = "tarefa3"
  /\ t' = Classifica(historico, media)
  /\ historico' = Empurra(historico, media)
  /\ tSeq' = seq
  /\ tSrc' = media
  /\ tWrites' = tWrites + 1
  /\ ran' = Append(ran, "tarefa3")
  /\ pc' = "tarefa4"
  /\ UNCHANGED <<g_executar_ciclo_tarefas, media, timerArmed, ticks, ticksIdle,
                 seq, cycles, errReports, pauses, sampleFault, mediaSeq, mediaWrites>>
  /\ argAnterior' = tSrc
  /\ chamadas' = chamadas + 1
  /\ UNCHANGED <<pedidos, tickDesdeReset, amostraTicks>>

(* executar_tarefa_3_display_oled *)
Tarefa3 ==
  /\ pc = "tarefa3"
  /\ ran' = Append(ran, "tarefa3")
  /\ pc' = "tarefa4"
  /\ UNCHANGED <<g_executar_ciclo_tarefas, media, t, timerArmed, historico, ticks,
                 ticksIdle, seq, cycles, errReports, pauses, sampleFault, mediaSeq,
                 tSeq, tSrc, mediaWrites, tWrites>>
  /\ UNCHANGED ghostHist

(* a loop that goes back to polling without printing the telemetry *)
Tarefa4_SemRelatorio ==
  /\ pc = "tarefa4"
  /\ ran' = Append(ran, "tarefa4")
  /\ pc' = "testa_flag"
  /\ UNCHANGED <<g_executar_ciclo_tarefas, media, t, timerArmed, historico, ticks,
                 ticksIdle, seq, cycles, errReports, pauses, sampleFault, mediaSeq,
                 tSeq, tSrc, mediaWrites, tWrites>>
  /\ UNCHANGED ghostHist

(* executar_tarefa_4_controle_neopixel *)
Tarefa4 ==
  /\ pc = "tarefa4"
  /\ ran' = Append(ran, "tarefa4")
  /\ pc' = "printf"
  /\ UNCHANGED <<g_executar_ciclo_tarefas, media, t, timerArmed, historico, ticks,
                 ticksIdle, seq, cycles, errReports, pauses, sampleFault, mediaSeq,
                 tSeq, tSrc, mediaWrites, tWrites>>
  /\ UNCHANGED ghostHist

(* a loop that resets the flag at the end of the cycle as well *)
Printf_LimpaFlag ==
  /\ pc = "printf"
  /\ cycles' = cycles + 1
  /\ ran' = Append(ran, "printf")
  /\ pc' = "testa_flag"
  /\ g_executar_ciclo_tarefas' = FALSE
  /\ tickDesdeReset' = FALSE
  /\ UNCHANGED <<media, t, timerArmed, historico, ticks,
                 ticksIdle, seq, errReports, pauses, sampleFault, mediaSeq,
                 tSeq, tSrc, mediaWrites, tWrites>>
  /\ UNCHANGED <<pedidos, amostraTicks, argAnterior, chamadas>>

(* printf("Temperatura: %.2f C | ... | Tend: %s\n", media, ..., tendencia_para_texto(t)) *)
Printf ==
  /\ pc = "printf"
  /\ cycles' = cycles + 1
  /\ ran' = Append(ran, "printf")
  /\ pc' = "testa_flag"
  /\ UNCHANGED <<g_executar_ciclo_tarefas, media, t, timerArmed, historico, ticks,
                 ticksIdle, seq, errReports, pauses, sampleFault, mediaSeq,
                 tSeq, tSrc, mediaWrites, tWrites>>
  /\ UNCHANGED ghostHist

Next ==
  \/ Tick
  \/ Registrar
  \/ FalhaPrint
  \/ FalhaLoop
  \/ TestaFlag
  \/ ResetaFlag
  \/ Tarefa1
  \/ Tarefa5
  \/ Tarefa2
  \/ Tarefa3
  \/ Tarefa4
  \/ Printf

(* the steps of main(): the cooperative context keeps running *)
MainStep ==
  \/ Registrar
  \/ FalhaPrint
  \/ FalhaLoop
  \/ TestaFlag
  \/ ResetaFlag
  \/ Tarefa1
  \/ Tarefa5
  \/ Tarefa2
  \/ Tarefa3
  \/ Tarefa4
  \/ Printf

Spec == Init /\ [][Next]_vars

(* main() is always scheduled again and every task call returns *)
SpecJusto == Init /\ [][Next]_vars /\ WF_vars(MainStep)

TypeOK ==
  /\ pc \in PcTodos
  /\ g_executar_ciclo_tarefas \in BOOLEAN
  /\ media \in Temps \cup {0}
  /\ t \in TendenciaT
  /\ timerArmed \in BOOLEAN
  /\ ticks \in 0..MaxTicks

----------------------------------------------------------------------------
(* Helpers of the properties *)

StageOrder == <<"tarefa1", "tarefa2", "tarefa3", "tarefa4", "printf">>

(* the steps of a cycle without the conditional blink *)
Core(s) == SelectSeq(s, LAMBDA x : x # "tarefa5")

(* number of stages of StageOrder completed when main() stands at p *)
Feitas(p) ==
  CASE p = "tarefa1" -> 0
    [] p = "tarefa5" -> 1
    [] p = "tarefa2" -> 1
    [] p = "tarefa3" -> 2
    [] p = "tarefa4" -> 3
    [] p = "printf"  -> 4
    [] OTHER         -> 5

Consumidores == {"tarefa3", "tarefa4", "printf"}

----------------------------------------------------------------------------
(* C1: within a cycle the stages run in the order sample, classify,       *)
(* present, indicate, telemetry, none skipped or repeated, and main()     *)
(* leaves the cycle only from the telemetry step, whatever ticks fire.    *)
C1_Ordem ==
  /\ pc \in EmVoo => Core(ran) = SubSeq(StageOrder, 1, Feitas(pc))
  /\ (pc \in {"testa_flag", "reseta_flag"} /\ seq > 0) => Core(ran) = StageOrder

C1_StageOrder ==
  /\ []C1_Ordem
  /\ [][(pc \in EmVoo /\ pc' \notin EmVoo) => (pc = "printf" /\ pc' = "testa_flag")]_vars

(* two full cycles done, with a tick having fired in the middle of one *)
C1_Witness ==
  /\ pc = "testa_flag" /\ seq >= 2 /\ cycles = seq
  /\ Core(ran) = StageOrder
  /\ ticks > ticksIdle

(* C2: a tick that fires while a cycle is in flight arms no cycle, so     *)
(* every cycle that starts was armed by a tick fired outside a cycle.     *)
C2_TickDropped == seq <= ticksIdle

(* C3: there is never a requested cycle pending while another cycle is    *)
(* still executing its stages.                                            *)
C3_AtMostOneInFlight == ~(pc \in EmVoo /\ g_executar_ciclo_tarefas)

(* C4: the callback only requests a cycle: it moves main() nowhere, runs  *)
(* no task, makes no pause and leaves media and t as they are.            *)
C4_CallbackFrame ==
  [][ticks' # ticks =>
       /\ g_executar_ciclo_tarefas' = TRUE
       /\ UNCHANGED <<pc, media, t, historico, seq, cycles, errReports>>
       /\ UNCHANGED ghostCiclo]_vars

(* a tick has fired in the middle of a cycle, after its sampling *)
C4_Witness ==
  /\ pc \in {"tarefa5", "tarefa2", "tarefa3", "tarefa4", "printf"}
  /\ g_executar_ciclo_tarefas
  /\ mediaSeq = seq

(* C5: the telemetry lines printed never outnumber the ticks fired.       *)
C5_CyclesLeTicks == cycles <= ticks

(* as many cycles as ticks, a tick having fired during a cycle *)
C5_Witness == cycles >= 2 /\ cycles = ticks /\ ticks > ticksIdle

(* C6: when the display, the LED step or the telemetry reads (media, t),  *)
(* both were written in the current cycle and t is the classification of  *)
(* that media against the previous mean.                                  *)
C6_Freshness ==
  pc \in Consumidores =>
    /\ mediaSeq = seq
    /\ tSeq = seq
    /\ tSrc = media
    /\ historico # <<>>
    /\ historico[Len(historico)] = media
    /\ t = Classifica(SubSeq(historico, 1, Len(historico) - 1), media)

(* the telemetry of a later cycle is about to print a changed temperature *)
(* while a tick has fired during the cycle                                *)
C6_Witness ==
  /\ pc = "printf" /\ seq >= 2
  /\ g_executar_ciclo_tarefas
  /\ Len(historico) = 2 /\ historico[1] # media

(* C7: per cycle media is written once, by the sampling step, and t once, *)
(* by the classification step, after media; nothing else writes them.     *)
C7_Contagem ==
  /\ mediaWrites <= 1 /\ tWrites <= 1
  /\ tWrites = 1 => mediaWrites = 1
  /\ pc \in {"tarefa5", "tarefa2"} => (mediaWrites = 1 /\ tWrites = 0)
  /\ (pc \in Consumidores \/ (pc \in {"testa_flag", "reseta_flag"} /\ seq > 0))
       => (mediaWrites = 1 /\ tWrites = 1)

C7_SingleWrite ==
  /\ []C7_Contagem
  /\ [][((media' # media \/ mediaWrites' > mediaWrites) => pc = "tarefa1")
        /\ ((t' # t \/ tWrites' > tWrites) => pc = "tarefa2")]_vars

(* a later cycle has written both fields once *)
C7_Witness ==
  /\ pc = "printf" /\ seq >= 2
  /\ mediaWrites = 1 /\ tWrites = 1

(* C8: main() makes no blocking pause of its own, outside the sampler,    *)
(* the display and the LED calls.                                         *)
C8_NoOwnPause == pauses = 0

(* C9: a cycle whose sampler faulted runs no classification, display or   *)
(* LED step and prints no telemetry.                                      *)
C9_FaultAbandons == (pc \in {"tarefa2", "tarefa3", "tarefa4", "printf"}) => ~sampleFault

(* C10: a failed registration is reported once and main() then stays in   *)
(* the error loop: no tick, no task and no telemetry ever happens.        *)
C10_Parado ==
  pc \in PcFalha =>
    /\ ~timerArmed
    /\ errReports = (IF pc = "falha_loop" THEN 1 ELSE 0)
    /\ ticks = 0 /\ seq = 0 /\ cycles = 0
    /\ ran = <<>> /\ mediaWrites = 0 /\ tWrites = 0 /\ media = 0

C10_RegistrationFailure ==
  /\ []C10_Parado
  /\ [][(pc = "registrar" /\ ~timerArmed') => pc' = "falha_print"]_vars
  /\ [][(pc \in PcFalha) => (pc' \in PcFalha)]_vars

(* the failure has been reported and main() sits in the error loop *)
C10_Witness == pc = "falha_loop" /\ errReports = 1 /\ ~timerArmed

(* the variables of the program itself, without the history variables *)
ProgramState == <<pc, g_executar_ciclo_tarefas, media, t, timerArmed, historico>>

(* C11: every tick that fires while a cycle is in flight is counted by   *)
(* the program: it changes the program's state.                          *)
C11_OverrunCounted ==
  [][(ticks' # ticks /\ pc \in EmVoo) => ProgramState' # ProgramState]_vars

(* C12: one telemetry line per cycle, printed right after the LED step   *)
(* and before the flag is tested again; none outside a cycle.            *)
C12_Linhas ==
  /\ pc \in EmVoo => cycles = seq - 1
  /\ pc \notin EmVoo => cycles = seq

C12_OneLinePerCycle ==
  /\ []C12_Linhas
  /\ [][cycles' # cycles =>
          /\ pc = "printf" /\ pc' = "testa_flag"
          /\ cycles' = cycles + 1
          /\ ran[Len(ran)] = "tarefa4"]_vars

(* two lines printed, the loop back at the test of the flag *)
C12_Witness ==
  /\ pc = "testa_flag" /\ cycles = 2 /\ seq = 2
  /\ ran # <<>> /\ ran[Len(ran)] = "printf"

(* C13: the first call of the classifier yields Unknown; a later call    *)
(* yields Rising, Falling or Stable by the difference between its        *)
(* argument and the argument of the call before, against the threshold.  *)
C13_Esperada ==
  IF chamadas = 1 THEN "Unknown"
  ELSE IF tSrc - argAnterior > LIMIAR_TENDENCIA THEN "Rising"
  ELSE IF tSrc - argAnterior < -LIMIAR_TENDENCIA THEN "Falling"
  ELSE "Stable"

C13_Classification == chamadas >= 1 => t = C13_Esperada

(* a third call whose difference is exactly the threshold: Stable *)
C13_Witness ==
  /\ chamadas = 3
  /\ tSrc - argAnterior = LIMIAR_TENDENCIA
  /\ t = "Stable"

(* C14: the flag is true exactly when a tick has fired since main() last *)
(* reset it; only a tick sets it and only the reset of main() clears it. *)
C14_Coerente == g_executar_ciclo_tarefas <=> tickDesdeReset

C14_SingleWriter ==
  /\ []C14_Coerente
  /\ [][((~g_executar_ciclo_tarefas /\ g_executar_ciclo_tarefas') => ticks' # ticks)
        /\ ((g_executar_ciclo_tarefas /\ ~g_executar_ciclo_tarefas')
              => (pc = "reseta_flag" /\ ticks' = ticks))]_vars

(* the flag set again by a tick during a later cycle *)
C14_Witness ==
  /\ pc \in EmVoo /\ seq >= 2
  /\ g_executar_ciclo_tarefas /\ tickDesdeReset

(* C15: under a main loop that keeps running, every tick is followed by  *)
(* a cycle that began its sampling after the tick and printed its line.  *)
C15_Servido(n) ==
  /\ pc \in {"testa_flag", "reseta_flag"}
  /\ cycles >= 1 /\ cycles = seq
  /\ amostraTicks >= n

C15_NoTickUnserved == \A n \in 1..MaxTicks : (ticks >= n) ~> C15_Servido(n)

(* three ticks, two of them coalesced into one request, all served *)
C15_Witness ==
  /\ pc = "testa_flag" /\ ~g_executar_ciclo_tarefas
  /\ ticks = 3 /\ pedidos = 2 /\ cycles = 2
  /\ amostraTicks = 3

(* C16: ticks are coalesced: the cycles started plus the one request     *)
(* that can be pending equal the ticks that found no request pending,    *)
(* and once the loop is idle as many lines were printed.                 *)
C16_Coalesced ==
  /\ seq + (IF g_executar_ciclo_tarefas THEN 1 ELSE 0) = pedidos
  /\ pedidos <= ticks
  /\ (pc = "testa_flag" /\ ~g_executar_ciclo_tarefas) => cycles = pedidos

(* one tick outside a cycle, two ticks during that cycle, the loop idle  *)
(* again: two cycles ran, not three                                      *)
C16_Witness ==
  /\ pc = "testa_flag" /\ ~g_executar_ciclo_tarefas
  /\ ticks = 3 /\ ticksIdle = 1
  /\ pedidos = 2 /\ cycles = 2

(* the statement after p in the if-branch of the main loop *)
Prox(p) ==
  CASE p = "tarefa1" -> "tarefa5"
    [] p = "tarefa5" -> "tarefa2"
    [] p = "tarefa2" -> "tarefa3"
    [] p = "tarefa3" -> "tarefa4"
    [] p = "tarefa4" -> "printf"
    [] OTHER         -> "testa_flag"

(* C17: a started cycle is never aborted or restarted: a tick leaves     *)
(* main() where it is, every other step goes to the next statement of    *)
(* the same cycle, and the cycle ends with its telemetry line.           *)
C17_Passo ==
  (pc \in EmVoo) =>
    IF ticks' # ticks
      THEN pc' = pc /\ ran' = ran /\ seq' = seq
      ELSE pc' = Prox(pc) /\ seq' = seq

C17_RunsToCompletion ==
  /\ [][C17_Passo]_vars
  /\ \A n \in 1..MaxTicks :
       (seq = n /\ pc \in EmVoo)
         ~> (seq = n /\ cycles = n /\ pc = "testa_flag" /\ Core(ran) = StageOrder)

(* a later cycle whose sampler faulted and during which a tick fired has *)
(* run all its stages                                                    *)
C17_Witness ==
  /\ pc = "testa_flag" /\ seq >= 2 /\ cycles = seq
  /\ sampleFault /\ g_executar_ciclo_tarefas /\ ticks > ticksIdle
  /\ Core(ran) = StageOrder

(* C18: once registered the timer keeps repeating: in the main loop the  *)
(* timer is armed and, below the bound of the exploration, a tick can    *)
(* fire.                                                                 *)
C18_TimerKeepsRunning ==
  pc \in PcLoop =>
    /\ timerArmed
    /\ ticks < MaxTicks => ENABLED Tick

(* two callbacks have returned and the timer is still armed *)
C18_Witness == pc \in EmVoo /\ ticks = 2 /\ timerArmed

Blinked == \E i \in 1..Len(ran) : ran[i] = "tarefa5"

(* C19: the blink runs in a cycle exactly when the temperature sampled   *)
(* in that cycle is below 1.0, between the sampling and the              *)
(* classification, and it leaves media and t as they are.                *)
C19_Quando ==
  /\ pc \in {"tarefa1", "tarefa5"} => ~Blinked
  /\ (pc \in {"tarefa2", "tarefa3", "tarefa4", "printf"}
        \/ (pc \in {"testa_flag", "reseta_flag"} /\ seq > 0)) =>
       /\ mediaSeq = seq
       /\ Blinked <=> media < LIMIAR_FRIO
       /\ pauses = (IF Blinked THEN 2 ELSE 0)
       /\ Blinked => (ran[1] = "tarefa1" /\ ran[2] = "tarefa5"
                       /\ (Len(ran) >= 3 => ran[3] = "tarefa2"))

C19_BlinkStep ==
  /\ []C19_Quando
  /\ [][(pc = "tarefa5" /\ pc' # pc) =>
          (media' = media /\ t' = t /\ historico' = historico /\ pc' = "tarefa2")]_vars

(* a cycle that blinked and went on to classify, and one at the limit    *)
(* of 1.0 that did not blink                                             *)
C19_Witness ==
  /\ pc = "printf" /\ seq = 2
  /\ media = LIMIAR_FRIO /\ ~Blinked
  /\ argAnterior < LIMIAR_FRIO

====
